---------------------------- MODULE Spec2Model ----------------------------
(***************************************************************************)
(* A model of the LaTeX compilation backend of MyMD-IDE                    *)
(* (src-tauri/src/main.rs): the command compile_latex, its helper          *)
(* handle_compilation_result, and the file system and compiler subprocess  *)
(* they act on.                                                            *)
(*                                                                         *)
(* Strings are sequences of tokens.  A token is an atomic piece of text:   *)
(* the literals "error:" and "l." that the two regular expressions look    *)
(* for, a white-space character, a line feed, a digit, or a word.  Numbers *)
(* of type u32 are kept as canonical decimal numerals (sequences of ASCII  *)
(* digits without leading zeros), because the values around 2^32 matter.   *)
(***************************************************************************)
EXTENDS Integers, Sequences, FiniteSets, TLC

(***************************************************************************)
(* Bounds of the model.                                                    *)
(***************************************************************************)
\* Largest number of lines of a compiler log explored by the extractor.
MaxLogLines == 3
\* Largest number of calls of compile_latex in one behaviour.
MaxCalls == 2

(***************************************************************************)
(* Option values (Rust's Option<T>).                                       *)
(***************************************************************************)
None == [some |-> FALSE]
Some(v) == [some |-> TRUE, val |-> v]

(***************************************************************************)
(* Characters and strings.                                                 *)
(***************************************************************************)
LF == "\n"
CR == "\r"
SP == " "
\* A decimal digit that is not ASCII (ARABIC-INDIC DIGIT THREE, U+0663):
\* the regex class \d is Unicode-aware, u32's FromStr is not.
UniDigit == "U+0663"
AsciiDigits == {"0", "1", "2", "3", "4", "5", "6", "7", "8", "9"}
Digits == AsciiDigits \cup {UniDigit}
WhiteSpace == {SP, CR, LF}

DigitVal(d) ==
  CASE d = "0" -> 0 [] d = "1" -> 1 [] d = "2" -> 2 [] d = "3" -> 3
    [] d = "4" -> 4 [] d = "5" -> 5 [] d = "6" -> 6 [] d = "7" -> 7
    [] d = "8" -> 8 [] d = "9" -> 9

RECURSIVE TrimStart(_)
TrimStart(s) ==
  IF s # <<>> /\ Head(s) \in WhiteSpace THEN TrimStart(Tail(s)) ELSE s

RECURSIVE TrimEnd(_)
TrimEnd(s) ==
  IF s # <<>> /\ s[Len(s)] \in WhiteSpace
    THEN TrimEnd(SubSeq(s, 1, Len(s) - 1))
    ELSE s

\* str::trim
Trim(s) == TrimEnd(TrimStart(s))

\* str::lines: the pieces between line feeds, each without the carriage
\* return that ends it; a final empty piece is no line.
RECURSIVE SplitLF(_, _)
SplitLF(s, cur) ==
  IF s = <<>> THEN <<cur>>
  ELSE IF Head(s) = LF THEN <<cur>> \o SplitLF(Tail(s), <<>>)
  ELSE SplitLF(Tail(s), Append(cur, Head(s)))

StripCR(l) ==
  IF l # <<>> /\ l[Len(l)] = CR THEN SubSeq(l, 1, Len(l) - 1) ELSE l

Lines(s) ==
  LET pieces == SplitLF(s, <<>>)
      kept == IF pieces[Len(pieces)] = <<>>
                THEN SubSeq(pieces, 1, Len(pieces) - 1)
                ELSE pieces
  IN [i \in 1..Len(kept) |-> StripCR(kept[i])]

(***************************************************************************)
(* u32 and its parser.                                                     *)
(***************************************************************************)
Zero == <<"0">>
U32_MAX == <<"4", "2", "9", "4", "9", "6", "7", "2", "9", "5">>

RECURSIVE StripZeros(_)
StripZeros(ds) ==
  IF Len(ds) > 1 /\ Head(ds) = "0" THEN StripZeros(Tail(ds)) ELSE ds

\* a <= b for numerals of the same length
RECURSIVE NumLeq(_, _)
NumLeq(a, b) ==
  IF a = <<>> THEN TRUE
  ELSE IF DigitVal(Head(a)) < DigitVal(Head(b)) THEN TRUE
  ELSE IF DigitVal(Head(a)) > DigitVal(Head(b)) THEN FALSE
  ELSE NumLeq(Tail(a), Tail(b))

FitsU32(n) ==
  \/ Len(n) < Len(U32_MAX)
  \/ Len(n) = Len(U32_MAX) /\ NumLeq(n, U32_MAX)

\* parse_u32 with a slip: a number too large becomes the largest u32.
parse_u32_Saturating(ds) ==
  IF ds = <<>> \/ \E i \in 1..Len(ds) : ds[i] \notin AsciiDigits
    THEN None
  ELSE IF FitsU32(StripZeros(ds)) THEN Some(StripZeros(ds))
  ELSE Some(U32_MAX)

\* str::parse::<u32>().ok(): only ASCII digits, no overflow.
parse_u32(ds) ==
  IF ds = <<>> \/ \E i \in 1..Len(ds) : ds[i] \notin AsciiDigits
    THEN None
  ELSE IF FitsU32(StripZeros(ds)) THEN Some(StripZeros(ds))
  ELSE None

(***************************************************************************)
(* CompileError and its constructors.                                      *)
(***************************************************************************)
CompileError(line, message) ==
  [line |-> line, message |-> message, severity |-> <<"error">>]

CompileError_simple(msg) == CompileError(Zero, msg)

\* e.to_string() of an io::Error: the text of the error.
CompileError_sys(e) == CompileError(Zero, e)

(***************************************************************************)
(* The two regular expressions of handle_compilation_result.               *)
(***************************************************************************)
ErrorTok == "error:"
AnchorTok == "l."

RECURSIVE SkipSpaces(_)
SkipSpaces(s) ==
  IF s # <<>> /\ Head(s) \in WhiteSpace THEN SkipSpaces(Tail(s)) ELSE s

\* ^error:\s*(.*)$ : the capture group, when the line matches.
msg_re(t) ==
  IF t # <<>> /\ Head(t) = ErrorTok /\ \A i \in 1..Len(t) : t[i] # LF
    THEN Some(SkipSpaces(Tail(t)))
    ELSE None

RECURSIVE DigitRun(_)
DigitRun(s) ==
  IF s # <<>> /\ Head(s) \in Digits
    THEN <<Head(s)>> \o DigitRun(Tail(s))
    ELSE <<>>

\* ^l\.(\d+) : the capture group, when the line matches.
line_re(t) ==
  IF Len(t) >= 2 /\ t[1] = AnchorTok /\ t[2] \in Digits
    THEN Some(DigitRun(Tail(t)))
    ELSE None

DefaultMessage == <<"Compilation error">>

\* ScanLine with a slip: a message does not replace one that is pending.
ScanLine_KeepFirst(st, line) ==
  LET trimmed == Trim(line)
      m == msg_re(trimmed)
      a == line_re(trimmed)
  IN IF m.some
       THEN [current_message |-> IF st.current_message.some
                                   THEN st.current_message
                                   ELSE Some(Trim(m.val)),
             errors |-> st.errors]
     ELSE IF a.some
       THEN LET p == parse_u32(a.val)
                line_number == IF p.some THEN p.val ELSE Zero
                message == IF st.current_message.some
                             THEN st.current_message.val
                             ELSE DefaultMessage
            IN [current_message |-> None,
                errors |-> Append(st.errors, CompileError(line_number, message))]
     ELSE st

\* ScanLine with a slip: an anchor reads the pending message without
\* taking it.
ScanLine_NoTake(st, line) ==
  LET trimmed == Trim(line)
      m == msg_re(trimmed)
      a == line_re(trimmed)
  IN IF m.some
       THEN [current_message |-> Some(Trim(m.val)), errors |-> st.errors]
     ELSE IF a.some
       THEN LET p == parse_u32(a.val)
                line_number == IF p.some THEN p.val ELSE Zero
                message == IF st.current_message.some
                             THEN st.current_message.val
                             ELSE DefaultMessage
            IN [current_message |-> st.current_message,
                errors |-> Append(st.errors, CompileError(line_number, message))]
     ELSE st

\* ScanLine with a slip: a message is added to the one that is pending.
ScanLine_Accumulate(st, line) ==
  LET trimmed == Trim(line)
      m == msg_re(trimmed)
      a == line_re(trimmed)
  IN IF m.some
       THEN [current_message |-> IF st.current_message.some
                                   THEN Some(st.current_message.val \o <<SP>>
                                               \o Trim(m.val))
                                   ELSE Some(Trim(m.val)),
             errors |-> st.errors]
     ELSE IF a.some
       THEN LET p == parse_u32(a.val)
                line_number == IF p.some THEN p.val ELSE Zero
                message == IF st.current_message.some
                             THEN st.current_message.val
                             ELSE DefaultMessage
            IN [current_message |-> None,
                errors |-> Append(st.errors, CompileError(line_number, message))]
     ELSE st

\* One turn of the loop over log.lines(): st is the pair of the loop's
\* variables current_message and errors.
ScanLine(st, line) ==
  LET trimmed == Trim(line)
      m == msg_re(trimmed)
      a == line_re(trimmed)
  IN IF m.some
       THEN [current_message |-> Some(Trim(m.val)), errors |-> st.errors]
     ELSE IF a.some
       THEN LET p == parse_u32(a.val)
                line_number == IF p.some THEN p.val ELSE Zero
                message == IF st.current_message.some
                             THEN st.current_message.val
                             ELSE DefaultMessage
            IN [current_message |-> None,
                errors |-> Append(st.errors, CompileError(line_number, message))]
     ELSE st

ScanInit == [current_message |-> None, errors |-> <<>>]

RECURSIVE ScanFrom(_, _)
ScanFrom(st, ls) ==
  IF ls = <<>> THEN st ELSE ScanFrom(ScanLine(st, Head(ls)), Tail(ls))

\* format!("{}\n{}", stdout, stderr)
FormatLog(stdout, stderr) == stdout \o <<LF>> \o stderr

\* FinishErrors with a slip: the fallback carries the log untrimmed.
FinishErrors_Untrimmed(errors, log) ==
  IF errors = <<>> THEN <<CompileError_simple(log)>> ELSE errors

\* FinishErrors with a slip: no fallback.
FinishErrors_NoFallback(errors, log) == errors

\* FinishErrors with a slip: the fallback is added in every case.
FinishErrors_Appends(errors, log) ==
  Append(errors, CompileError_simple(Trim(log)))

\* The end of the failure branch: the fallback when nothing was parsed.
FinishErrors(errors, log) ==
  IF errors = <<>> THEN <<CompileError_simple(Trim(log))>> ELSE errors

\* The failure branch of handle_compilation_result as a whole.
ParseLog(log) == FinishErrors(ScanFrom(ScanInit, Lines(log)).errors, log)

(***************************************************************************)
(* Paths (std::path::Path).  A path is a root flag and a sequence of       *)
(* components; a component is a file name, itself a sequence of tokens in  *)
(* which "." is the dot, or the parent-directory component "..".          *)
(***************************************************************************)
DOT == "."
ParentDir == <<"..">>
Path(root, comps) == [root |-> root, comps |-> comps]

\* Path::parent
parent(p) ==
  IF p.comps = <<>> THEN None
  ELSE Some(Path(p.root, SubSeq(p.comps, 1, Len(p.comps) - 1)))

\* Path::file_name
file_name(p) ==
  IF p.comps = <<>> \/ p.comps[Len(p.comps)] = ParentDir THEN None
  ELSE Some(p.comps[Len(p.comps)])

\* The part of a file name before its last dot; the whole name when it has
\* no dot or only a leading one.
StemOfName(name) ==
  LET dots == {i \in 1..Len(name) : name[i] = DOT}
      last == IF dots = {} THEN 0 ELSE CHOOSE i \in dots : \A j \in dots : j <= i
  IN IF last <= 1 THEN name ELSE SubSeq(name, 1, last - 1)

\* file_stem with a slip: a path without file name has the empty stem.
file_stem_Lenient(p) ==
  IF file_name(p).some THEN Some(StemOfName(file_name(p).val)) ELSE Some(<<>>)

\* Path::file_stem
file_stem(p) ==
  IF file_name(p).some THEN Some(StemOfName(file_name(p).val)) ELSE None

\* Path::join with a relative single-component path
join(p, name) == Path(p.root, Append(p.comps, name))

\* A directory and the directories above it.
Ancestors(d) ==
  {Path(d.root, SubSeq(d.comps, 1, n)) : n \in 0..Len(d.comps)}

(***************************************************************************)
(* The layout of a compilation on disk.                                    *)
(***************************************************************************)
\* std::env::temp_dir()
TempDir == Path(TRUE, <<<<"tmp">>>>)

\* pdf_file_path of case A with a slip: another file name.
ScratchPdf_Other ==
  join(join(TempDir, <<"tauri_latex_build">>), <<"output", DOT, "pdf">>)

\* Case A: temp_dir, tex_file_path, pdf_file_path.
ScratchDir == join(TempDir, <<"tauri_latex_build">>)
ScratchTex == join(ScratchDir, <<"input", DOT, "tex">>)
ScratchPdf == join(ScratchDir, <<"input", DOT, "pdf">>)

\* Case B: parent_dir, aux_dir, pdf_file_path of a source path.
ParentOf(source_path) ==
  IF parent(source_path).some THEN parent(source_path).val
  ELSE Path(FALSE, <<<<DOT>>>>)

AuxDirOf(source_path) == join(ParentOf(source_path), <<"AuxiliaryFiles">>)

PdfPathOf(source_path) ==
  join(AuxDirOf(source_path),
       file_stem(source_path).val \o <<DOT, "pdf">>)

\* The three paths of a request, whatever its mode.
SourceFile(r) == IF r.file_path.some THEN r.file_path.val ELSE ScratchTex
OutputDir(r) == IF r.file_path.some THEN AuxDirOf(r.file_path.val) ELSE ScratchDir
ArtifactFile(r) == IF r.file_path.some THEN PdfPathOf(r.file_path.val) ELSE ScratchPdf

(***************************************************************************)
(* Results and error texts.                                                *)
(***************************************************************************)
Ok(data) == [ok |-> TRUE, data |-> data]
Err(errors) == [ok |-> FALSE, errors |-> errors]

\* The text (Display) of the io::Error values met by the calls.
EEXIST == <<"File exists (os error 17)">>
EACCES == <<"Permission denied (os error 13)">>
ENOENT == <<"No such file or directory (os error 2)">>

\* The two literal messages of the source, which are Chinese; each is kept
\* here as one token holding its English wording.
NoFileNameMessage == <<"cannot get the file name">>
NoPdfMessage == <<"compilation succeeded but the generated PDF file was not found">>

(***************************************************************************)
(* The inputs explored.                                                    *)
(***************************************************************************)
\* The callers of compile_latex whose calls may overlap: the command takes
\* no lock, and its callers (tasks of one application, or two running
\* applications) share the file system.
Procs == {1, 2}

\* latex_code: the n-th call carries a text of its own, so that what is
\* read or returned shows which call wrote it.
TextOfCall(n) == <<"\\doc", ToString(n)>>

Root == Path(TRUE, <<>>)
DirP == Path(TRUE, <<<<"p">>>>)
DirQ == Path(TRUE, <<<<"q">>>>)

\* file_path: absent, three files (two of one stem in one directory, a
\* third elsewhere), and two paths without a file name (the empty path, and
\* a directory named through "..").
Locations ==
  {None,
   Some(join(DirP, <<"a", DOT, "tex">>)),
   Some(join(DirP, <<"a", DOT, "md">>)),
   Some(join(DirQ, <<"a", DOT, "tex">>)),
   Some(Path(FALSE, <<>>)),
   Some(join(DirP, ParentDir))}

\* What a failing compiler may print: nothing, or a message with its anchor.
CompilerLogs ==
  {[stdout |-> <<>>, stderr |-> <<>>],
   [stdout |-> <<"note:", SP, "Running TeX ...">>,
    stderr |-> <<ErrorTok, SP, "Undefined control sequence.", LF,
                 AnchorTok, "3", SP, "\\foo">>]}

\* What a compiler that exits with success may print: warnings in the shape
\* of a message and an anchor.
SuccessLogs ==
  {[stdout |-> <<"note:", SP, "Running TeX ...">>,
    stderr |-> <<ErrorTok, SP, "Overfull hbox", LF, AnchorTok, "7", LF>>]}

\* The lines the extractor is explored on.
LineSet ==
  {<<>>,
   <<ErrorTok, SP, "A">>,
   <<SP, ErrorTok, "B", SP, CR>>,
   <<ErrorTok>>,
   <<ErrorTok, SP, AnchorTok, "5">>,
   <<"x", SP, ErrorTok, SP, "A">>,
   <<AnchorTok, "3">>,
   <<SP, AnchorTok, "0", "1", "2", SP, "\\foo">>,
   <<AnchorTok, "4", "2", "9", "4", "9", "6", "7", "2", "9", "5">>,
   <<AnchorTok, "4", "2", "9", "4", "9", "6", "7", "2", "9", "6">>,
   <<AnchorTok, UniDigit>>,
   <<AnchorTok, SP, "3">>,
   <<"l", "3">>}

RECURSIVE JoinLines(_)
JoinLines(ls) ==
  IF ls = <<>> THEN <<>>
  ELSE IF Len(ls) = 1 THEN ls[1]
  ELSE ls[1] \o <<LF>> \o JoinLines(Tail(ls))

LineSeqs == UNION {[1..n -> LineSet] : n \in 1..MaxLogLines}

(***************************************************************************)
(* The state.                                                              *)
(***************************************************************************)
VARIABLES
  dirs,       \* the directories that exist
  files,      \* the files that exist, with their content
  ncalls,     \* the calls of compile_latex made so far
  pc,         \* where each task is in compile_latex
  req,        \* the arguments of its call: latex_code, file_path
  cmd,        \* the command line of the compiler it spawned
  seen,       \* the source text its compiler read
  wrote,      \* the artifact its compiler wrote
  output,     \* the std::process::Output of its compiler
  result,     \* what its call returns
  spawned,    \* how many compilers its call has spawned
  art0,       \* history: what its artifact path held when the call began
  interfered, \* history: the file_path of each other call that wrote a path
              \*   of its call while it ran
  xpc,        \* the extractor alone: where it is
  xstdout,    \*   the two streams it is given
  xstderr,
  xlines,     \*   log.lines()
  xi,         \*   the lines scanned so far
  xscan,      \*   current_message and errors
  xerrors     \*   the list returned

fsvars == <<dirs, files>>
callvars == <<ncalls, pc, req, cmd, seen, wrote, output, result, spawned,
              art0, interfered>>
xvars == <<xpc, xstdout, xstderr, xlines, xi, xscan, xerrors>>
vars == <<dirs, files, ncalls, pc, req, cmd, seen, wrote, output, result,
          spawned, art0, interfered, xpc, xstdout, xstderr, xlines, xi, xscan, xerrors>>

NoReq == [latex_code |-> <<>>, file_path |-> None]
NoCmd == [program |-> "", input |-> Root, outdir |-> None]
NoOutput == [success |-> FALSE, stdout |-> <<>>, stderr |-> <<>>]
NoFiles == [f \in {} |-> <<>>]

\* Path::exists
Exists(path) == path \in dirs \/ path \in DOMAIN files

\* fs::write
WriteFile(fs, path, content) ==
  [f \in DOMAIN fs \cup {path} |->
     IF f = path THEN content ELSE fs[f]]

\* The artifact path of a call with this file_path, when it has one.
ArtifactOfLoc(loc) ==
  IF ~loc.some THEN Some(ScratchPdf)
  ELSE IF file_stem(loc.val).some THEN Some(PdfPathOf(loc.val))
  ELSE None

\* What a path holds, when it is a file.
ContentAt(path) ==
  IF path.some /\ path.val \in DOMAIN files
    THEN Some(files[path.val])
    ELSE None

InitFs ==
  /\ dirs = {Root, TempDir, DirP, DirQ}
  /\ files = NoFiles

InitCalls ==
  /\ ncalls = 0
  /\ pc = [p \in Procs |-> "idle"]
  /\ req = [p \in Procs |-> NoReq]
  /\ cmd = [p \in Procs |-> NoCmd]
  /\ seen = [p \in Procs |-> None]
  /\ wrote = [p \in Procs |-> None]
  /\ output = [p \in Procs |-> NoOutput]
  /\ result = [p \in Procs |-> None]
  /\ spawned = [p \in Procs |-> 0]
  /\ art0 = [p \in Procs |-> None]
  /\ interfered = [p \in Procs |-> {}]

InitX ==
  /\ xpc = "off"
  /\ xstdout = <<>>
  /\ xstderr = <<>>
  /\ xlines = <<>>
  /\ xi = 0
  /\ xscan = ScanInit
  /\ xerrors = <<>>

Init == InitFs /\ InitCalls /\ InitX

(***************************************************************************)
(* compile_latex, one action per step that reads or writes the file system *)
(* or the process table.                                                   *)
(***************************************************************************)
\* The paths a call works with: its source file, its output directory and
\* its artifact (none for a file_path without file name).
Footprint(r) ==
  IF r.file_path.some /\ ~file_name(r.file_path.val).some THEN {}
  ELSE {SourceFile(r), OutputDir(r), ArtifactFile(r)}

\* The history of interference: a step of task q that creates or changes a
\* path of the call of another task is recorded with that call, which
\* forgets its history when it returns.
Interference(q) ==
  LET changed == (dirs' \ dirs) \cup
                 {x \in DOMAIN files' : x \notin DOMAIN files \/ files'[x] # files[x]}
  IN interfered' =
       [p \in Procs |->
          IF pc'[p] = "idle" THEN {}
          ELSE IF /\ p # q
                  /\ pc[p] # "done"
                  /\ (dirs' # dirs \/ files' # files)
                  /\ Footprint(req[p]) \cap changed # {}
            THEN interfered[p] \cup {req[q].file_path}
          ELSE interfered[p]]

\* The "?" after map_err, and every other return: the call has its result.
Finish(p, r) ==
  /\ result' = [result EXCEPT ![p] = Some(r)]
  /\ pc' = [pc EXCEPT ![p] = "done"]

Goto(p, label) ==
  /\ pc' = [pc EXCEPT ![p] = label]
  /\ UNCHANGED result

\* The frontend invokes the command; the test of file_path chooses the case.
\* The tasks are interchangeable: when both are free, the one that calls is
\* named 1.
Call(p) ==
  /\ pc[p] = "idle"
  /\ ncalls < MaxCalls
  /\ (\A q \in Procs : pc[q] = "idle") => p = 1
  /\ \E loc \in Locations :
       /\ req' = [req EXCEPT ![p] = [latex_code |-> TextOfCall(ncalls + 1),
                                     file_path |-> loc]]
       /\ pc' = [pc EXCEPT ![p] = IF loc.some THEN "B_stem" ELSE "A_exists"]
       /\ art0' = [art0 EXCEPT ![p] = ContentAt(ArtifactOfLoc(loc))]
  /\ ncalls' = ncalls + 1
  /\ UNCHANGED <<fsvars, cmd, seen, wrote, output, result, spawned, xvars>>
  /\ Interference(p)

\* Case A: if !temp_dir.exists()
A_exists(p) ==
  /\ pc[p] = "A_exists"
  /\ Goto(p, IF Exists(ScratchDir) THEN "A_write" ELSE "A_create")
  /\ UNCHANGED <<fsvars, ncalls, req, cmd, seen, wrote, output, spawned, art0, xvars>>
  /\ Interference(p)

\* A_create with a slip: the Failure carries a text of its own instead of
\* the error of the file system.
A_create_OwnText(p) ==
  /\ pc[p] = "A_create"
  /\ \/ /\ Exists(ScratchDir)
        /\ Finish(p, Err(<<CompileError_simple(<<"cannot create the directory">>)>>))
        /\ UNCHANGED dirs
     \/ /\ ~Exists(ScratchDir)
        /\ \/ /\ dirs' = dirs \cup {ScratchDir}
              /\ Goto(p, "A_write")
           \/ /\ Finish(p, Err(<<CompileError_simple(<<"cannot create the directory">>)>>))
              /\ UNCHANGED dirs
  /\ UNCHANGED <<files, ncalls, req, cmd, seen, wrote, output, spawned, art0, xvars>>
  /\ Interference(p)

\* Case A: fs::create_dir(&temp_dir), which fails on a directory that exists.
A_create(p) ==
  /\ pc[p] = "A_create"
  /\ \/ /\ Exists(ScratchDir)
        /\ Finish(p, Err(<<CompileError_sys(EEXIST)>>))
        /\ UNCHANGED dirs
     \/ /\ ~Exists(ScratchDir)
        /\ \/ /\ dirs' = dirs \cup {ScratchDir}
              /\ Goto(p, "A_write")
           \/ /\ Finish(p, Err(<<CompileError_sys(EACCES)>>))
              /\ UNCHANGED dirs
  /\ UNCHANGED <<files, ncalls, req, cmd, seen, wrote, output, spawned, art0, xvars>>
  /\ Interference(p)

\* A_write with a slip: the error of the write is dropped.
A_write_IgnoresError(p) ==
  /\ pc[p] = "A_write"
  /\ \/ /\ files' = WriteFile(files, ScratchTex, req[p].latex_code)
        /\ Goto(p, "A_spawn")
     \/ /\ Goto(p, "A_spawn")
        /\ UNCHANGED files
  /\ UNCHANGED <<dirs, ncalls, req, cmd, seen, wrote, output, spawned, art0, xvars>>
  /\ Interference(p)

\* Case A: fs::write(&tex_file_path, &latex_code)
A_write(p) ==
  /\ pc[p] = "A_write"
  /\ \/ /\ files' = WriteFile(files, ScratchTex, req[p].latex_code)
        /\ Goto(p, "A_spawn")
     \/ /\ Finish(p, Err(<<CompileError_sys(EACCES)>>))
        /\ UNCHANGED files
  /\ UNCHANGED <<dirs, ncalls, req, cmd, seen, wrote, output, spawned, art0, xvars>>
  /\ Interference(p)

\* Command::new("tectonic")
CompilerBinary == "tectonic"

\* Command::output: the compiler is launched, or the launch fails.
Launch(p, c) ==
  \/ /\ cmd' = [cmd EXCEPT ![p] = c]
     /\ spawned' = [spawned EXCEPT ![p] = @ + 1]
     /\ Goto(p, "tectonic_start")
  \/ /\ Finish(p, Err(<<CompileError_sys(ENOENT)>>))
     /\ UNCHANGED <<cmd, spawned>>

\* Case A with a change: each task has an output directory of its own.
A_spawn_Private(p) ==
  /\ pc[p] = "A_spawn"
  /\ Launch(p, [program |-> CompilerBinary, input |-> ScratchTex,
                outdir |-> Some(join(ScratchDir, <<"out", ToString(p)>>))])
  /\ UNCHANGED <<fsvars, ncalls, req, seen, wrote, output, art0, xvars>>
  /\ Interference(p)

\* Case A: tectonic <tex_file_path>, in temp_dir
A_spawn(p) ==
  /\ pc[p] = "A_spawn"
  /\ Launch(p, [program |-> CompilerBinary, input |-> ScratchTex,
                outdir |-> None])
  /\ UNCHANGED <<fsvars, ncalls, req, seen, wrote, output, art0, xvars>>
  /\ Interference(p)

\* B_stem with a slip: the auxiliary directory is made before the test of
\* the file stem.
B_stem_DirFirst(p) ==
  /\ pc[p] = "B_stem"
  /\ dirs' = dirs \cup Ancestors(AuxDirOf(req[p].file_path.val))
  /\ IF file_stem(req[p].file_path.val).some
       THEN Goto(p, "B_exists")
       ELSE Finish(p, Err(<<CompileError_simple(NoFileNameMessage)>>))
  /\ UNCHANGED <<files, ncalls, req, cmd, seen, wrote, output, spawned, art0, xvars>>
  /\ Interference(p)

\* Case B: source_path.file_stem().ok_or_else(..)?
B_stem(p) ==
  /\ pc[p] = "B_stem"
  /\ IF file_stem(req[p].file_path.val).some
       THEN Goto(p, "B_exists")
       ELSE Finish(p, Err(<<CompileError_simple(NoFileNameMessage)>>))
  /\ UNCHANGED <<fsvars, ncalls, req, cmd, seen, wrote, output, spawned, art0, xvars>>
  /\ Interference(p)

\* Case B: if !aux_dir.exists()
B_exists(p) ==
  /\ pc[p] = "B_exists"
  /\ Goto(p, IF Exists(AuxDirOf(req[p].file_path.val))
               THEN "B_write" ELSE "B_create")
  /\ UNCHANGED <<fsvars, ncalls, req, cmd, seen, wrote, output, spawned, art0, xvars>>
  /\ Interference(p)

\* Case B: fs::create_dir_all(&aux_dir), which accepts a directory that exists.
B_create(p) ==
  /\ pc[p] = "B_create"
  /\ \/ /\ dirs' = dirs \cup Ancestors(AuxDirOf(req[p].file_path.val))
        /\ Goto(p, "B_write")
     \/ /\ Finish(p, Err(<<CompileError_sys(EACCES)>>))
        /\ UNCHANGED dirs
  /\ UNCHANGED <<files, ncalls, req, cmd, seen, wrote, output, spawned, art0, xvars>>
  /\ Interference(p)

\* Case B: fs::write(source_path, &latex_code)
B_write(p) ==
  /\ pc[p] = "B_write"
  /\ \/ /\ files' = WriteFile(files, req[p].file_path.val, req[p].latex_code)
        /\ Goto(p, "B_spawn")
     \/ /\ Finish(p, Err(<<CompileError_sys(EACCES)>>))
        /\ UNCHANGED files
  /\ UNCHANGED <<dirs, ncalls, req, cmd, seen, wrote, output, spawned, art0, xvars>>
  /\ Interference(p)

\* Case B: tectonic -o <aux_dir> --keep-intermediates --synctex <source_path>
B_spawn(p) ==
  /\ pc[p] = "B_spawn"
  /\ Launch(p, [program |-> CompilerBinary, input |-> req[p].file_path.val,
                outdir |-> Some(AuxDirOf(req[p].file_path.val))])
  /\ UNCHANGED <<fsvars, ncalls, req, seen, wrote, output, art0, xvars>>
  /\ Interference(p)

(***************************************************************************)
(* The compiler, a process of its own while the call waits in output().   *)
(* It reads its input file, and later exits; an exit with success may or   *)
(* may not have written the document, whose bytes then depend on the text  *)
(* read.  It writes <outdir>/<stem of the input>.pdf, outdir being the     *)
(* directory of the input unless -o names one.                            *)
(***************************************************************************)
PdfOf(text) == <<"%PDF-1.5">> \o text

TectonicPdfPath(c) ==
  join(IF c.outdir.some THEN c.outdir.val ELSE ParentOf(c.input),
       StemOfName(file_name(c.input).val) \o <<DOT, "pdf">>)

TectonicRead(p) ==
  /\ pc[p] = "tectonic_start"
  /\ seen' = [seen EXCEPT ![p] = Some(files[cmd[p].input])]
  /\ Goto(p, "tectonic_run")
  /\ UNCHANGED <<fsvars, ncalls, req, cmd, wrote, output, spawned, art0, xvars>>
  /\ Interference(p)

TectonicExit(p) ==
  /\ pc[p] = "tectonic_run"
  /\ \/ /\ \E log \in CompilerLogs :
             output' = [output EXCEPT ![p] =
               [success |-> FALSE, stdout |-> log.stdout, stderr |-> log.stderr]]
        /\ UNCHANGED <<files, wrote>>
     \/ /\ \E log \in SuccessLogs :
             output' = [output EXCEPT ![p] =
               [success |-> TRUE, stdout |-> log.stdout, stderr |-> log.stderr]]
        /\ \/ /\ files' = WriteFile(files, TectonicPdfPath(cmd[p]),
                                    PdfOf(seen[p].val))
              /\ wrote' = [wrote EXCEPT ![p] = Some(PdfOf(seen[p].val))]
           \/ UNCHANGED <<files, wrote>>
  /\ Goto(p, "handle")
  /\ UNCHANGED <<dirs, ncalls, req, cmd, seen, spawned, art0, xvars>>
  /\ Interference(p)

(***************************************************************************)
(* handle_compilation_result(output, pdf_file_path)                        *)
(***************************************************************************)
\* The failure branch applied to the output of the compiler: ParseLog of the
\* formatted log, computed once for each log the compiler may print.
ParsedLogs ==
  [o \in CompilerLogs \cup SuccessLogs |->
     ParseLog(FormatLog(o.stdout, o.stderr))]

ErrorsOf(out) == ParsedLogs[[stdout |-> out.stdout, stderr |-> out.stderr]]

\* Handle with a slip: success without artifact aborts the task, which
\* returns nothing.
Handle_Aborts(p) ==
  /\ pc[p] = "handle"
  /\ IF ~output[p].success
       THEN Finish(p, Err(ErrorsOf(output[p])))
     ELSE /\ Exists(ArtifactFile(req[p]))
          /\ Goto(p, "pdf_read")
  /\ UNCHANGED <<fsvars, ncalls, req, cmd, seen, wrote, output, spawned, art0, xvars>>
  /\ Interference(p)

\* Handle with a slip: after a compiler that failed, the compiler is run a
\* second time.
Handle_Retries(p) ==
  /\ pc[p] = "handle"
  /\ IF ~output[p].success
       THEN IF spawned[p] < 2
              THEN Goto(p, IF req[p].file_path.some THEN "B_spawn" ELSE "A_spawn")
              ELSE Finish(p, Err(ErrorsOf(output[p])))
     ELSE IF Exists(ArtifactFile(req[p]))
       THEN Goto(p, "pdf_read")
     ELSE Finish(p, Err(<<CompileError_simple(NoPdfMessage)>>))
  /\ UNCHANGED <<fsvars, ncalls, req, cmd, seen, wrote, output, spawned, art0, xvars>>
  /\ Interference(p)

\* Handle with a slip: without artifact, the log is parsed.
Handle_ParsesLog(p) ==
  /\ pc[p] = "handle"
  /\ IF ~output[p].success
       THEN Finish(p, Err(ErrorsOf(output[p])))
     ELSE IF Exists(ArtifactFile(req[p]))
       THEN Goto(p, "pdf_read")
     ELSE Finish(p, Err(ErrorsOf(output[p])))
  /\ UNCHANGED <<fsvars, ncalls, req, cmd, seen, wrote, output, spawned, art0, xvars>>
  /\ Interference(p)

\* if !output.status.success() { .. return Err(errors) }
\* if pdf_path.exists() { .. } else { Err(..) }
Handle(p) ==
  /\ pc[p] = "handle"
  /\ IF ~output[p].success
       THEN Finish(p, Err(ErrorsOf(output[p])))
     ELSE IF Exists(ArtifactFile(req[p]))
       THEN Goto(p, "pdf_read")
     ELSE Finish(p, Err(<<CompileError_simple(NoPdfMessage)>>))
  /\ UNCHANGED <<fsvars, ncalls, req, cmd, seen, wrote, output, spawned, art0, xvars>>
  /\ Interference(p)

\* fs::read(&pdf_path)
PdfRead(p) ==
  /\ pc[p] = "pdf_read"
  /\ \/ Finish(p, Ok(files[ArtifactFile(req[p])]))
     \/ Finish(p, Err(<<CompileError_sys(EACCES)>>))
  /\ UNCHANGED <<fsvars, ncalls, req, cmd, seen, wrote, output, spawned, art0, xvars>>
  /\ Interference(p)

\* The result goes to the frontend; the task is free for another call.
Return(p) ==
  /\ pc[p] = "done"
  /\ pc' = [pc EXCEPT ![p] = "idle"]
  /\ req' = [req EXCEPT ![p] = NoReq]
  /\ cmd' = [cmd EXCEPT ![p] = NoCmd]
  /\ seen' = [seen EXCEPT ![p] = None]
  /\ wrote' = [wrote EXCEPT ![p] = None]
  /\ output' = [output EXCEPT ![p] = NoOutput]
  /\ result' = [result EXCEPT ![p] = None]
  /\ spawned' = [spawned EXCEPT ![p] = 0]
  /\ art0' = [art0 EXCEPT ![p] = None]
  /\ UNCHANGED <<fsvars, ncalls, xvars>>
  /\ Interference(p)

Next ==
  \E p \in Procs :
    \/ Call(p)
    \/ A_exists(p)
    \/ A_create(p)
    \/ A_write(p)
    \/ A_spawn(p)
    \/ B_stem(p)
    \/ B_exists(p)
    \/ B_create(p)
    \/ B_write(p)
    \/ B_spawn(p)
    \/ TectonicRead(p)
    \/ TectonicExit(p)
    \/ Handle(p)
    \/ PdfRead(p)
    \/ Return(p)

Spec == Init /\ [][Next]_vars

\* The steps of the call of p and of its compiler.  The task that runs the
\* command is scheduled, and every file-system call and the regex scan are
\* finite; that the compiler, once launched, exits is the assumption under
\* which termination is stated.  Nothing obliges the frontend to call, or to
\* call again.
Run(p) ==
  \/ A_exists(p) \/ A_create(p) \/ A_write(p) \/ A_spawn(p)
  \/ B_stem(p) \/ B_exists(p) \/ B_create(p) \/ B_write(p) \/ B_spawn(p)
  \/ TectonicRead(p) \/ TectonicExit(p)
  \/ Handle(p) \/ PdfRead(p)

\* Termination is explored on calls that follow one another: no call waits
\* for another call (the code takes no lock), so that a call is held up by
\* its compiler alone, overlapped or not.
CallAlone(p) ==
  /\ \A q \in Procs : pc[q] = "idle"
  /\ Call(p)

NextLive ==
  \E p \in Procs :
    \/ CallAlone(p)
    \/ Run(p)
    \/ Return(p)

SpecLive ==
  /\ Init
  /\ [][NextLive]_vars
  /\ \A p \in Procs : WF_vars(Run(p))

(***************************************************************************)
(* The failure branch of handle_compilation_result on its own, one line of *)
(* the log at a time, for every log of at most MaxLogLines lines over      *)
(* LineSet: the first line is the standard output, the others the standard *)
(* error.                                                                  *)
(***************************************************************************)
XLog == FormatLog(xstdout, xstderr)

IsMessageLine(line) == msg_re(Trim(line)).some
IsAnchorLine(line) == ~IsMessageLine(line) /\ line_re(Trim(line)).some

XInit ==
  /\ InitFs
  /\ InitCalls
  /\ xpc = "start"
  /\ \E ls \in LineSeqs :
       /\ xstdout = ls[1]
       /\ xstderr = JoinLines(Tail(ls))
  /\ xlines = <<>>
  /\ xi = 0
  /\ xscan = ScanInit
  /\ xerrors = <<>>

\* let log = format!(..); current_message = None; errors = Vec::new()
XStart ==
  /\ xpc = "start"
  /\ xlines' = Lines(XLog)
  /\ xpc' = "scan"
  /\ UNCHANGED <<fsvars, callvars, xstdout, xstderr, xi, xscan, xerrors>>

\* for line in log.lines(): the next line is scanned.
XScan ==
  /\ xscan' = ScanLine(xscan, xlines[xi + 1])
  /\ xi' = xi + 1
  /\ UNCHANGED <<fsvars, callvars, xpc, xstdout, xstderr, xlines, xerrors>>

\* if let Some(caps) = msg_re.captures(trimmed) { .. continue; }
XMessage ==
  /\ xpc = "scan"
  /\ xi < Len(xlines)
  /\ IsMessageLine(xlines[xi + 1])
  /\ XScan

\* if let Some(caps) = line_re.captures(trimmed) { .. errors.push(..) }
XAnchor ==
  /\ xpc = "scan"
  /\ xi < Len(xlines)
  /\ IsAnchorLine(xlines[xi + 1])
  /\ XScan

\* a line that matches neither
XOther ==
  /\ xpc = "scan"
  /\ xi < Len(xlines)
  /\ ~IsMessageLine(xlines[xi + 1])
  /\ ~IsAnchorLine(xlines[xi + 1])
  /\ XScan

\* if errors.is_empty() { errors.push(..) }  return Err(errors)
XFinish ==
  /\ xpc = "scan"
  /\ xi = Len(xlines)
  /\ xerrors' = FinishErrors(xscan.errors, XLog)
  /\ xpc' = "returned"
  /\ UNCHANGED <<fsvars, callvars, xstdout, xstderr, xlines, xi, xscan>>

XNext == XStart \/ XMessage \/ XAnchor \/ XOther \/ XFinish

SpecExtract == XInit /\ [][XNext]_vars

(***************************************************************************)
(* Properties of the extractor (under SpecExtract).                        *)
(***************************************************************************)
Diagnostic(line, message) ==
  [line |-> line, message |-> message, severity |-> <<"error">>]

\* The lines of the log before line j hold a message that no anchor before
\* line j has consumed.
PendingBefore(j) ==
  \E i \in 1..(j - 1) :
    /\ IsMessageLine(xlines[i])
    /\ \A k \in (i + 1)..(j - 1) : ~IsAnchorLine(xlines[k])

\* The number of anchor lines among the first j lines.
AnchorsUpTo(j) == Cardinality({i \in 1..j : IsAnchorLine(xlines[i])})

\* MSG of a line "error: MSG"
MessageOf(line) == Trim(Tail(Trim(line)))

\* The digits of N of a line "l.N ..."
DigitsOf(line) == DigitRun(Tail(Trim(line)))

\* N is written in ASCII digits and fits 32 bits.
WellFormedAnchor(line) ==
  /\ IsAnchorLine(line)
  /\ \A i \in 1..Len(DigitsOf(line)) : DigitsOf(line)[i] \in AsciiDigits
  /\ FitsU32(StripZeros(DigitsOf(line)))

\* N as a numeral
NumberOf(line) == StripZeros(DigitsOf(line))

Returned(line, message) ==
  \E k \in 1..Len(xerrors) : xerrors[k] = Diagnostic(line, message)

\* C2 as stated: for every line "error: MSG" and every well-formed anchor
\* line "l.N" after it, the result holds a Diagnostic with message MSG and
\* line N.
C2_EveryPair ==
  xpc = "returned" =>
    \A i \in 1..Len(xlines), j \in 1..Len(xlines) :
      (i < j /\ IsMessageLine(xlines[i]) /\ WellFormedAnchor(xlines[j]))
        => Returned(NumberOf(xlines[j]), MessageOf(xlines[i]))

\* C2 amended: for every line "error: MSG" and every well-formed anchor line
\* "l.N" after it with no other "error:" line and no other anchor line
\* between the two, the result holds a Diagnostic with message MSG and
\* line N.
C2_NearestPair ==
  xpc = "returned" =>
    \A i \in 1..Len(xlines), j \in 1..Len(xlines) :
      ( /\ i < j
        /\ IsMessageLine(xlines[i])
        /\ WellFormedAnchor(xlines[j])
        /\ \A k \in (i + 1)..(j - 1) :
             ~IsMessageLine(xlines[k]) /\ ~IsAnchorLine(xlines[k]) )
        => Returned(NumberOf(xlines[j]), MessageOf(xlines[i]))

\* A message and its anchor, a line that is neither between them, and the
\* Diagnostic returned.
C2_Witness ==
  /\ xpc = "returned"
  /\ Len(xlines) = 3
  /\ IsMessageLine(xlines[1]) /\ MessageOf(xlines[1]) = <<"A">>
  /\ ~IsMessageLine(xlines[2]) /\ ~IsAnchorLine(xlines[2])
  /\ WellFormedAnchor(xlines[3])
  /\ xerrors = <<Diagnostic(NumberOf(xlines[3]), <<"A">>)>>

\* C7: the Diagnostic emitted for an anchor line that is scanned while no
\* message is pending (none seen yet, or the last one consumed by an earlier
\* anchor) has the message "Compilation error".
C7_AnchorWithoutMessage ==
  xpc \in {"scan", "returned"} =>
    \A j \in 1..xi :
      (IsAnchorLine(xlines[j]) /\ ~PendingBefore(j))
        => /\ AnchorsUpTo(j) <= Len(xscan.errors)
           /\ xscan.errors[AnchorsUpTo(j)].message = <<"Compilation error">>

\* A message, the anchor that consumes it, and a second anchor, which gets
\* the default message.
C7_Witness ==
  /\ xpc = "returned"
  /\ Len(xlines) = 3
  /\ IsMessageLine(xlines[1])
  /\ IsAnchorLine(xlines[2])
  /\ IsAnchorLine(xlines[3])
  /\ Len(xerrors) = 2
  /\ xerrors[1].message = MessageOf(xlines[1])
  /\ xerrors[2].message = <<"Compilation error">>

\* C8: for a log with "error:" lines and no anchor line, the result is one
\* Diagnostic, with line 0 and the whole trimmed log as its message, which
\* is none of the messages dropped.
C8_OnlyUnanchored ==
  ( /\ xpc = "returned"
    /\ \E i \in 1..Len(xlines) : IsMessageLine(xlines[i])
    /\ \A i \in 1..Len(xlines) : ~IsAnchorLine(xlines[i]) )
    => /\ xerrors = <<Diagnostic(<<"0">>, Trim(xstdout \o <<"\n">> \o xstderr))>>
       /\ \A i \in 1..Len(xlines) :
            IsMessageLine(xlines[i]) => xerrors[1].message # MessageOf(xlines[i])

\* Two messages, no anchor, and the fallback returned.
C8_Witness ==
  /\ xpc = "returned"
  /\ Len(xlines) = 3
  /\ IsMessageLine(xlines[1]) /\ MessageOf(xlines[1]) = <<"A">>
  /\ IsMessageLine(xlines[3]) /\ MessageOf(xlines[3]) = <<"B">>
  /\ \A i \in 1..Len(xlines) : ~IsAnchorLine(xlines[i])
  /\ Len(xerrors) = 1
  /\ xerrors[1].line = <<"0">>

(***************************************************************************)
(* Properties of compile_latex (under Spec).                               *)
(***************************************************************************)
\* The line number the Diagnostic of an anchor line carries: N when its
\* digits parse as a u32, else 0.
LineOf(line) == IF WellFormedAnchor(line) THEN NumberOf(line) ELSE <<"0">>

\* C11: for a log with at least one anchor line the result has one
\* Diagnostic per anchor line and no other: as many Diagnostics as anchor
\* lines, the i-th with the line number of the i-th anchor line, in the
\* order of the log, and no fallback.
C11_OnePerAnchor ==
  (xpc = "returned" /\ AnchorsUpTo(Len(xlines)) >= 1)
    => /\ Len(xerrors) = AnchorsUpTo(Len(xlines))
       /\ \A j \in 1..Len(xlines) :
            IsAnchorLine(xlines[j])
              => xerrors[AnchorsUpTo(j)].line = LineOf(xlines[j])

\* Two anchors with falling line numbers and a line that is neither: two
\* Diagnostics, in the order of the log.
C11_Witness ==
  /\ xpc = "returned"
  /\ Len(xlines) = 3
  /\ IsAnchorLine(xlines[1]) /\ IsAnchorLine(xlines[3])
  /\ ~IsAnchorLine(xlines[2]) /\ ~IsMessageLine(xlines[2])
  /\ Len(xerrors) = 2
  /\ xerrors[1].line = <<"1", "2">>
  /\ xerrors[2].line = <<"3">>

\* The message line i is the last one before line j, and no anchor line
\* lies between the two.
LastMessageBefore(i, j) ==
  /\ i < j
  /\ IsMessageLine(xlines[i])
  /\ \A k \in (i + 1)..(j - 1) :
       ~IsMessageLine(xlines[k]) /\ ~IsAnchorLine(xlines[k])

\* The message line i is dropped: the next message or anchor line after it
\* is a message line, or there is none.
Dropped(i) ==
  /\ IsMessageLine(xlines[i])
  /\ \A j \in (i + 1)..Len(xlines) :
       IsAnchorLine(xlines[j])
         => \E k \in (i + 1)..(j - 1) : IsMessageLine(xlines[k])

\* No other message line has the text of message line i, which is not the
\* default text either.
OwnText(i) ==
  /\ MessageOf(xlines[i]) # <<"Compilation error">>
  /\ \A k \in 1..Len(xlines) :
       (k # i /\ IsMessageLine(xlines[k]))
         => MessageOf(xlines[k]) # MessageOf(xlines[i])

\* C12: one message is pending at most.  The Diagnostic of an anchor line
\* carries the message of the last message line before it, when no anchor
\* lies between the two, and "Compilation error" otherwise; a message
\* followed by another message before any anchor is in no Diagnostic, and
\* no message is in more than one.
C12_SinglePending ==
  xpc = "returned" =>
    /\ \A j \in 1..Len(xlines) :
         IsAnchorLine(xlines[j])
           => /\ AnchorsUpTo(j) <= Len(xerrors)
              /\ \A i \in 1..(j - 1) :
                   LastMessageBefore(i, j)
                     => xerrors[AnchorsUpTo(j)].message = MessageOf(xlines[i])
              /\ ~PendingBefore(j)
                   => xerrors[AnchorsUpTo(j)].message = <<"Compilation error">>
    /\ \A i \in 1..Len(xlines) :
         (IsMessageLine(xlines[i]) /\ OwnText(i))
           => /\ Cardinality({k \in 1..Len(xerrors) :
                                xerrors[k].message = MessageOf(xlines[i])}) <= 1
              /\ Dropped(i) =>
                   \A k \in 1..Len(xerrors) :
                     xerrors[k].message # MessageOf(xlines[i])

\* Two messages and then an anchor: one Diagnostic, with the later message.
C12_Witness ==
  /\ xpc = "returned"
  /\ Len(xlines) = 3
  /\ IsMessageLine(xlines[1]) /\ IsMessageLine(xlines[2])
  /\ MessageOf(xlines[1]) # MessageOf(xlines[2])
  /\ IsAnchorLine(xlines[3])
  /\ Len(xerrors) = 1
  /\ xerrors[1].message = MessageOf(xlines[2])

\* The digits of the anchor line are ASCII digits.
AsciiAnchor(line) ==
  /\ IsAnchorLine(line)
  /\ \A i \in 1..Len(DigitsOf(line)) : DigitsOf(line)[i] \in AsciiDigits

\* N is 4294967295 at most: a numeral shorter than that one, or as long
\* and not after it.
AtMostU32Max(n) ==
  \/ Len(n) < 10
  \/ /\ Len(n) = 10
     /\ \E k \in 1..11 :
          /\ \A i \in 1..(k - 1) : n[i] = U32_MAX[i]
          /\ k <= 10 => DigitVal(n[k]) < DigitVal(U32_MAX[k])

\* C16: the anchor line just scanned has its Diagnostic, which took the
\* pending message; its line is N when N is 4294967295 at most, and 0 when
\* N is larger.
C16_LineFitsOrZero ==
  (xpc \in {"scan", "returned"} /\ xi >= 1 /\ AsciiAnchor(xlines[xi]))
    => /\ Len(xscan.errors) = AnchorsUpTo(xi)
       /\ xscan.current_message = None
       /\ xscan.errors[AnchorsUpTo(xi)].line =
            IF AtMostU32Max(NumberOf(xlines[xi]))
              THEN NumberOf(xlines[xi])
              ELSE <<"0">>
       /\ \A i \in 1..(xi - 1) :
            LastMessageBefore(i, xi)
              => xscan.errors[AnchorsUpTo(xi)].message = MessageOf(xlines[i])

\* A message, the anchor l.4294967296 that takes it with line 0, and the
\* anchor l.4294967295 with its own number.
C16_Witness ==
  /\ xpc = "returned"
  /\ Len(xlines) = 3
  /\ IsMessageLine(xlines[1])
  /\ AsciiAnchor(xlines[2]) /\ AsciiAnchor(xlines[3])
  /\ NumberOf(xlines[2]) = <<"4", "2", "9", "4", "9", "6", "7", "2", "9", "6">>
  /\ NumberOf(xlines[3]) = <<"4", "2", "9", "4", "9", "6", "7", "2", "9", "5">>
  /\ xerrors = <<Diagnostic(<<"0">>, MessageOf(xlines[1])),
                 Diagnostic(NumberOf(xlines[3]), <<"Compilation error">>)>>

InFlight(p) == pc[p] # "idle"
Scratch(p) == InFlight(p) /\ ~req[p].file_path.some
FileBacked(p) == InFlight(p) /\ req[p].file_path.some

\* The path has no last component that is a file name.
NoBaseName(path) ==
  path.comps = <<>> \/ path.comps[Len(path.comps)] = <<"..">>

\* The call is over and its compiler ran and exited.
RanFailed(p) == pc[p] = "done" /\ spawned[p] = 1 /\ ~output[p].success
RanOk(p) == pc[p] = "done" /\ spawned[p] = 1 /\ output[p].success

Failure(p) == result[p].some /\ ~result[p].val.ok
LogOf(p) == output[p].stdout \o <<"\n">> \o output[p].stderr

ReadError == Err(<<Diagnostic(<<"0">>, EACCES)>>)
NoPdfFailure == Err(<<Diagnostic(<<"0">>, NoPdfMessage)>>)

\* C1: a Failure carries at least one Diagnostic, whatever the path it comes
\* from; when the compiler failed and its log has no anchor line, it carries
\* exactly the fallback, with line 0.
C1_FailureNonEmpty ==
  \A p \in Procs :
    Failure(p) =>
      /\ Len(result[p].val.errors) >= 1
      /\ ( /\ RanFailed(p)
           /\ LET ls == Lines(LogOf(p))
              IN \A i \in 1..Len(ls) : ~IsAnchorLine(ls[i]) )
           => result[p].val.errors = <<Diagnostic(<<"0">>, Trim(LogOf(p)))>>

\* A compiler that failed and printed nothing: the fallback with the empty
\* message.
C1_Witness ==
  \E p \in Procs :
    /\ RanFailed(p)
    /\ LogOf(p) = <<"\n">>
    /\ result[p] = Some(Err(<<Diagnostic(<<"0">>, <<>>)>>))

\* The auxiliary directories and the artifact paths of two source paths
\* differ (a path without file name has neither).
DisjointLayout(a, b) ==
  (~NoBaseName(a) /\ ~NoBaseName(b))
    => /\ AuxDirOf(a) # AuxDirOf(b)
       /\ PdfPathOf(a) # PdfPathOf(b)

\* What the call of p has done so far is what it does when it runs alone:
\* its compiler read its own text and wrote the document of that text, and
\* after an exit with success it returns the document written, or else what
\* the artifact path held when the call began, or else the failure for the
\* missing artifact (or, in the first two cases, the error of reading it).
AsAlone(p) ==
  /\ seen[p].some => seen[p].val = req[p].latex_code
  /\ wrote[p].some => wrote[p].val = PdfOf(req[p].latex_code)
  /\ RanFailed(p) => result[p].val = Err(ParseLog(LogOf(p)))
  /\ RanOk(p) =>
       IF wrote[p].some
         THEN result[p].val \in {Ok(wrote[p].val), ReadError}
       ELSE IF art0[p].some
         THEN result[p].val \in {Ok(art0[p].val), ReadError}
       ELSE result[p].val = NoPdfFailure

\* C3: of two overlapping file-backed calls of distinct source
\* locations, the auxiliary directories and the artifact paths are disjoint
\* and neither writes a path of the other; a call that no call interferes
\* with does what it does alone.
C3_DistinctLocations ==
  \A p \in Procs :
    FileBacked(p) =>
      /\ \A q \in Procs :
           (FileBacked(q) /\ req[q].file_path.val # req[p].file_path.val)
             => DisjointLayout(req[p].file_path.val, req[q].file_path.val)
      /\ \A loc \in interfered[p] :
           ~(loc.some /\ loc.val # req[p].file_path.val)
      /\ interfered[p] = {} => AsAlone(p)

\* C4: when the compiler of a call exited with success having written B to
\* the artifact path of the call, the call returns Success with exactly B;
\* its only other outcome is the error of reading the artifact.  (This for a
\* call whose paths no overlapping call wrote; such calls are the subject
\* of C10.)
C4_RoundTrip ==
  \A p \in Procs :
    (RanOk(p) /\ wrote[p].some /\ interfered[p] = {})
      => /\ result[p].val.ok => result[p].val.data = wrote[p].val
         /\ ~result[p].val.ok => result[p].val = ReadError

\* A scratch call and a file-backed call, both over with the bytes their
\* compilers wrote.
C4_Witness ==
  /\ RanOk(1) /\ RanOk(2)
  /\ ~req[1].file_path.some
  /\ req[2].file_path = Some(join(DirP, <<"a", ".", "md">>))
  /\ wrote[1].some /\ result[1] = Some(Ok(wrote[1].val))
  /\ wrote[2].some /\ result[2] = Some(Ok(wrote[2].val))
  /\ files[ScratchPdf] = wrote[1].val
  /\ files[join(join(DirP, <<"AuxiliaryFiles">>), <<"a", ".", "pdf">>)] = wrote[2].val

\* C5: a call whose compiler exited with success and which finds no file at
\* its artifact path returns the Failure of one Diagnostic, with line 0 and
\* the message that the PDF was not found; the log has no part in it.
C5_MissingArtifact ==
  [][\A p \in Procs :
       ( /\ pc[p] = "handle"
         /\ output[p].success
         /\ ~Exists(ArtifactFile(req[p]))
         /\ pc'[p] # pc[p] )
         => /\ pc'[p] = "done"
            /\ result'[p] = Some(NoPdfFailure)]_vars

\* The compiler printed a message and an anchor, exited with success and
\* wrote nothing; the call returned the Failure of the missing artifact.
C5_Witness ==
  \E p \in Procs :
    /\ RanOk(p)
    /\ ~wrote[p].some
    /\ Len(ParseLog(LogOf(p))) = 1 /\ ParseLog(LogOf(p))[1].line = <<"7">>
    /\ result[p] = Some(NoPdfFailure)

\* C6: a file-backed call whose sourceLocation has no base name returns the
\* Failure of request validation at once: it never gets past the test of
\* the file stem and spawns no compiler.
C6_NoBaseName ==
  \A p \in Procs :
    (FileBacked(p) /\ NoBaseName(req[p].file_path.val))
      => /\ pc[p] \in {"B_stem", "done"}
         /\ spawned[p] = 0
         /\ pc[p] = "done" =>
              result[p] = Some(Err(<<Diagnostic(<<"0">>, NoFileNameMessage)>>))

\* Two calls over, one for the empty path and one for a directory named
\* through "..", both with the Failure of request validation.
C6_Witness ==
  /\ pc[1] = "done" /\ pc[2] = "done"
  /\ req[1].file_path = Some(Path(FALSE, <<>>))
  /\ req[2].file_path = Some(join(DirP, <<"..">>))
  /\ result[1] = Some(Err(<<Diagnostic(<<"0">>, NoFileNameMessage)>>))
  /\ result[2] = result[1]
  /\ spawned[1] = 0 /\ spawned[2] = 0

\* The text names the compiler binary.
NamesBinary(message) == \E i \in 1..Len(message) : message[i] = "tectonic"

\* C9 as stated: when the launch of the compiler fails, the message of the
\* Diagnostic returned names the compiler binary.
C9_LaunchFailureNamesBinary ==
  [][\A p \in Procs :
       (pc[p] \in {"A_spawn", "B_spawn"} /\ pc'[p] = "done")
         => /\ ~result'[p].val.ok
            /\ NamesBinary(result'[p].val.errors[1].message)]_vars

\* C10: two overlapping scratch calls that have launched their compilers
\* gave them one and the same input file, and the compiler of each writes
\* the file that the other call reads as its artifact.
C10_SharedScratchPaths ==
  \A p \in Procs, q \in Procs :
    (p # q /\ Scratch(p) /\ Scratch(q) /\ spawned[p] = 1 /\ spawned[q] = 1)
      => /\ cmd[p].input = cmd[q].input
         /\ TectonicPdfPath(cmd[p]) = ArtifactFile(req[q])

\* The race: two scratch calls of different texts overlap, the compiler of
\* one read the text of the other, and the call returned Success with the
\* document of the other's text.
C10_Witness ==
  \E p \in Procs, q \in Procs :
    /\ p # q /\ Scratch(p) /\ Scratch(q)
    /\ req[p].latex_code # req[q].latex_code
    /\ seen[p] = Some(req[q].latex_code)
    /\ pc[p] = "done"
    /\ result[p] = Some(Ok(PdfOf(req[q].latex_code)))

\* The call of p holds its text in its source file.
SourceWritten(p) ==
  /\ SourceFile(req[p]) \in DOMAIN files
  /\ files[SourceFile(req[p])] = req[p].latex_code

\* C13: in both modes the compiler is launched only after the source text
\* was written: at the launch the source file exists and, when no other
\* call wrote it, holds exactly the text of the request; and a call whose
\* write fails returns the Failure of one Diagnostic with line 0 and
\* launches nothing.
C13_WriteBeforeLaunch ==
  [][\A p \in Procs :
       /\ (pc[p] \in {"A_spawn", "B_spawn"} /\ spawned'[p] = spawned[p] + 1)
            => /\ SourceFile(req[p]) \in DOMAIN files
               /\ interfered[p] = {} => SourceWritten(p)
       /\ ( /\ pc[p] \in {"A_write", "B_write"}
            /\ pc'[p] # pc[p]
            /\ ~SourceWritten(p)' )
            => /\ pc'[p] = "done"
               /\ result'[p] = Some(Err(<<Diagnostic(<<"0">>, EACCES)>>))
               /\ spawned'[p] = 0]_vars

\* A file-backed call that is over after its write failed, its directory
\* made and its file absent; and a scratch call whose compiler was launched
\* on the text of the request.
C13_Witness ==
  /\ pc[1] = "done"
  /\ req[1].file_path = Some(join(DirP, <<"a", ".", "tex">>))
  /\ join(DirP, <<"AuxiliaryFiles">>) \in dirs
  /\ join(DirP, <<"a", ".", "tex">>) \notin DOMAIN files
  /\ result[1] = Some(Err(<<Diagnostic(<<"0">>, EACCES)>>))
  /\ spawned[1] = 0
  /\ pc[2] = "tectonic_start"
  /\ Scratch(2)
  /\ spawned[2] = 1
  /\ SourceWritten(2)

\* C14: a call whose creation of the scratch directory or of the auxiliary
\* directory fails returns the Failure of one Diagnostic, with line 0 and
\* the text of the file system's error; it leaves the files as they are, its
\* source file without the text of the request, and launches nothing.
C14_CreateDirFails ==
  [][\A p \in Procs :
       (pc[p] \in {"A_create", "B_create"} /\ pc'[p] = "done")
         => /\ \E e \in {EEXIST, EACCES} :
                 result'[p] = Some(Err(<<Diagnostic(<<"0">>, e)>>))
            /\ files' = files
            /\ ~SourceWritten(p)'
            /\ spawned'[p] = 0
            /\ cmd'[p] = NoCmd]_vars

\* Two scratch calls that both found no scratch directory: one made it, the
\* other failed on the directory that exists, with no file written.
C14_Witness ==
  \E p \in Procs :
    /\ pc[p] = "done"
    /\ Scratch(p)
    /\ result[p] = Some(Err(<<Diagnostic(<<"0">>, EEXIST)>>))
    /\ ScratchDir \in dirs
    /\ spawned[p] = 0
    /\ ~SourceWritten(p)

\* Where a call is once it has tried to launch its compiler.
AfterLaunch == {"tectonic_start", "tectonic_run", "handle", "pdf_read", "done"}

\* C15: a call launches its compiler once at most and never tries again:
\* once it has tried, whatever came of it, it goes on to its return without
\* another launch.
C15_NoRetry ==
  [][\A p \in Procs :
       /\ spawned'[p] <= 1
       /\ pc[p] \in AfterLaunch
            => /\ pc'[p] \in AfterLaunch \cup {"idle"}
               /\ pc'[p] # "idle" => spawned'[p] = spawned[p]
       /\ (pc[p] \in {"A_spawn", "B_spawn"} /\ pc'[p] # pc[p])
            => pc'[p] \in AfterLaunch]_vars

\* Two calls over: one whose launch failed, one whose compiler ran once and
\* failed.
C15_Witness ==
  /\ pc[1] = "done" /\ pc[2] = "done"
  /\ spawned[1] = 0
  /\ result[1] = Some(Err(<<Diagnostic(<<"0">>, ENOENT)>>))
  /\ spawned[2] = 1
  /\ RanFailed(2)

AfterWrite == {"B_spawn", "tectonic_start", "tectonic_run", "handle", "pdf_read"}

\* C19: a file-backed call whose path has no file stem returns at once and
\* leaves directories and files as they were; a call that goes on to compile
\* overwrites the file at its path with its text and nothing else by that
\* step, and when it returns, with whatever outcome, the file still holds
\* the text (no other call having written the path meanwhile).
C19_FrameEffects ==
  [][\A p \in Procs :
       /\ (pc[p] = "B_stem" /\ pc'[p] # pc[p]
              /\ ~file_stem(req[p].file_path.val).some)
            => /\ pc'[p] = "done"
               /\ result'[p] = Some(Err(<<Diagnostic(<<"0">>, NoFileNameMessage)>>))
               /\ dirs' = dirs
               /\ files' = files
       /\ (pc[p] = "B_write" /\ pc'[p] = "B_spawn")
            => /\ files' = WriteFile(files, req[p].file_path.val, req[p].latex_code)
               /\ dirs' = dirs
       /\ (/\ FileBacked(p)'
           /\ interfered'[p] = {}
           /\ \/ pc'[p] \in AfterWrite
              \/ pc[p] \in AfterWrite /\ pc'[p] = "done")
            => SourceWritten(p)']_vars

\* One call returned for want of a file stem, without a trace in the file
\* system; another, of the file /p/a.tex, returned the failure of its
\* compiler, and the file holds its text.
C19_Witness ==
  /\ pc[1] = "done"
  /\ req[1].file_path = Some(Path(FALSE, <<>>))
  /\ result[1] = Some(Err(<<Diagnostic(<<"0">>, NoFileNameMessage)>>))
  /\ AuxDirOf(Path(FALSE, <<>>)) \notin dirs
  /\ pc[2] = "done"
  /\ req[2].file_path = Some(join(DirP, <<"a", DOT, "tex">>))
  /\ RanFailed(2)
  /\ files[join(DirP, <<"a", DOT, "tex">>)] = req[2].latex_code

\* The call waits in Command::output() for its compiler.
Waiting(p) == pc[p] \in {"tectonic_start", "tectonic_run"}

\* C17: when the compiler, once launched, exits, every call returns, and it
\* returns one outcome, a Success or a Failure, which does not change until
\* the frontend has it; a call that waits for its compiler has no outcome and
\* leaves the wait by the exit of the compiler alone.
C17_Returns ==
  /\ \A p \in Procs : InFlight(p) ~> (pc[p] = "done" /\ result[p].some)
  /\ [][\A p \in Procs :
          /\ result'[p].some <=> pc'[p] = "done"
          /\ (result[p].some /\ pc'[p] # "idle") => result'[p] = result[p]
          /\ Waiting(p)
               => /\ ~result'[p].some
                  /\ pc'[p] \in {pc[p], "tectonic_run", "handle"}
                  /\ pc'[p] = "handle" => pc[p] = "tectonic_run"]_vars

\* A second call, made after the first returned, returned a Success after
\* its compiler exited.
C17_Witness ==
  /\ ncalls = 2
  /\ pc[1] = "done"
  /\ spawned[1] = 1
  /\ output[1].success
  /\ result[1].some /\ result[1].val.ok

=============================================================================
